---------------------------- MODULE Spec2Model ----------------------------
(***************************************************************************)
(* State-machine model of the three widgets of the repository:             *)
(*   - AutoForgeTerminal (chat terminal)   src/unnamed/part_000  1..166    *)
(*   - BitlockerPie      (rollout pie)     src/unnamed/part_000  168..354  *)
(*   - CloudLabPanel     (diagnostics)     src/src/islands/CloudLabPanel   *)
(* Each JavaScript run-to-completion block (an event handler up to its     *)
(* first await, a promise continuation, a timer callback) is one action.   *)
(* Text is a sequence of one-character or one-token strings.               *)
(***************************************************************************)
EXTENDS Integers, Sequences, FiniteSets, TLC

VARIABLES
    messages,   \* chat: useState<Msg[]>            part_000:7
    input,      \* chat: useState("")               part_000:8
    busy,       \* chat: useState(false)            part_000:9
    err,        \* chat: useState<string|null>      part_000:10
    inflight,   \* chat: the send() invocations suspended at an await
    raw,        \* reply extraction: `const raw`     part_000:46
    reply,      \* reply extraction: `let reply`     part_000:47
    days,       \* pie: the `days` prop              part_000:177
    i,          \* pie: useState(0), the day index   part_000:178
    playing,    \* pie: useState(false)              part_000:179
    tRef,       \* pie: useRef<number|null>          part_000:180
    timers,     \* pie: the pending window.setTimeout callbacks
    nextTimer,  \* pie: the id the next window.setTimeout returns
    mounted,    \* pie: the component is mounted
    total,      \* pie fractions: the memo `total`    part_000:182
    segs,       \* pie fractions: the memo `segs`     part_000:188
    history,    \* panel: useState<CallResult[]>     CloudLabPanel.tsx:102
    error,      \* panel: useState<string|null>      CloudLabPanel.tsx:101
    runs,       \* panel: the run() invocations, in click order, each with
                \*   its place (pc), how its GET settled, and the locals
                \*   `r` of call() and `res` of run()
    packet,     \* panel: the marker <circle>        CloudLabPanel.tsx:236
    paused,     \* panel: class "paused" of the path CloudLabPanel.tsx:235
    boundaryErr, \* panel: state.err of PanelErrorBoundary  CloudLabPanel.tsx:5
    outs,       \* cascade: useState<string[]>      CloudLabPanel.tsx:40
    li,         \* cascade: useState(0), line index CloudLabPanel.tsx:41
    ci,         \* cascade: useState(0), char index CloudLabPanel.tsx:42
    pauses,     \* cascade: the pending linePause timeouts, in the order
                \*   they were set, each with the `li` of its closure
    ev          \* the handler or continuation that ran last

chatVars == <<messages, input, busy, err, inflight>>
replyVars == <<raw, reply>>
pieVars == <<days, i, playing, tRef, timers, nextTimer, mounted>>
fracVars == <<total, segs>>
panelVars == <<history, error, runs, packet, paused, boundaryErr>>
cascadeVars == <<outs, li, ci, pauses>>
vars == <<chatVars, replyVars, pieVars, fracVars, panelVars, cascadeVars, ev>>

(***************************************************************************)
(* Bounds of the model.                                                    *)
(***************************************************************************)
MaxInputLen == 2    \* longest text typed into the textarea
MaxMsgs == 6        \* transcript length up to which submits are explored
MaxMs == 1          \* largest elapsed time reported by the status line
MaxDays == 4        \* longest snapshot array
MaxTimers == 8      \* timer ids up to which Start presses are explored
MaxRuns == 2        \* clicks on the panel's buttons
MaxCount == 4       \* largest count of machines in a snapshot
MaxLineLen == 2     \* characters of a line of the cascade
MaxPauses == 4      \* linePause timeouts pending at once

(***************************************************************************)
(* Nullable values: null is the empty sequence, a value v is <<v>>.        *)
(***************************************************************************)
Null == <<>>
Some(v) == <<v>>

(***************************************************************************)
(* String.prototype.trim, on sequences of characters.                      *)
(***************************************************************************)
InputChars == {" ", "a"}
Inputs == UNION {[1..n -> InputChars] : n \in 0..MaxInputLen}

IsSpace(c) == c = " "

RECURSIVE TrimStart(_)
TrimStart(s) ==
    IF s = <<>> THEN s
    ELSE IF IsSpace(Head(s)) THEN TrimStart(Tail(s)) ELSE s

RECURSIVE TrimEnd(_)
TrimEnd(s) ==
    IF s = <<>> THEN s
    ELSE IF IsSpace(s[Len(s)]) THEN TrimEnd(SubSeq(s, 1, Len(s) - 1)) ELSE s

trim(s) == TrimEnd(TrimStart(s))

(***************************************************************************)
(* JSON values of a response body.  A scalar is undefined (the key is      *)
(* missing), null or a string; choices is undefined, null or an array      *)
(* whose first element is null or an object whose message is undefined,    *)
(* null or an object with a scalar content.                                *)
(***************************************************************************)
Undef == [k |-> "undef", s |-> <<>>]
JNull == [k |-> "null", s |-> <<>>]
Str(s) == [k |-> "str", s |-> s]

ScalarsOf(letter) == {Undef, JNull, Str(<<>>), Str(<<letter>>)}

ChoiceShapes ==
    {"undef", "null", "empty", "elemNull", "noMessage", "messageNull", "content"}

ChoicesValues ==
    [shape : ChoiceShapes \ {"content"}, content : {Undef}]
        \cup [shape : {"content"}, content : ScalarsOf("D")]

JsonObjects ==
    [reply : ScalarsOf("A"), content : ScalarsOf("B"),
     message : ScalarsOf("C"), choices : ChoicesValues]

EmptyObject ==
    [reply |-> Undef, content |-> Undef, message |-> Undef,
     choices |-> [shape |-> "undef", content |-> Undef]]

\* JSON text of a member `key` with scalar value v (nothing when the key
\* is missing).
ScalarText(key, v) ==
    CASE v.k = "undef" -> <<>>
      [] v.k = "null" -> <<key, ":", "null", ",">>
      [] OTHER -> <<key, ":", "\"">> \o v.s \o <<"\"", ",">>

ChoicesText(c) ==
    CASE c.shape = "undef" -> <<>>
      [] c.shape = "null" -> <<"choices", ":", "null", ",">>
      [] c.shape = "empty" -> <<"choices", ":", "[", "]", ",">>
      [] c.shape = "elemNull" -> <<"choices", ":", "[", "null", "]", ",">>
      [] c.shape = "noMessage" -> <<"choices", ":", "[", "{", "}", "]", ",">>
      [] c.shape = "messageNull" ->
            <<"choices", ":", "[", "{", "message", ":", "null", ",", "}", "]", ",">>
      [] OTHER ->
            <<"choices", ":", "[", "{", "message", ":", "{">>
                \o ScalarText("content", c.content) \o <<"}", ",", "}", "]", ",">>

\* The text of a JSON object as the server sends it.
ObjectText(o) ==
    <<"{">> \o ScalarText("reply", o.reply) \o ScalarText("content", o.content)
        \o ScalarText("message", o.message) \o ChoicesText(o.choices) \o <<"}">>

NullText == <<"null">>
NumberText == <<"5">>
PlainText == <<"p", "l", "a", "i", "n">>

\* The response bodies explored: every object, the JSON null, a JSON number,
\* a text that is no JSON, and the empty body.
Bodies ==
    {ObjectText(o) : o \in JsonObjects} \cup {NullText, NumberText, PlainText, <<>>}

\* JSON.parse as a table over the bodies explored: the value whose text the
\* body is, or a SyntaxError.  A number has no member: each reads undefined.
ParseTable ==
    [text \in Bodies |->
        IF text = NullText THEN [kind |-> "null", obj |-> EmptyObject]
        ELSE IF text = NumberText THEN [kind |-> "obj", obj |-> EmptyObject]
        ELSE IF \E o \in JsonObjects : ObjectText(o) = text
        THEN [kind |-> "obj", obj |-> CHOOSE o \in JsonObjects : ObjectText(o) = text]
        ELSE [kind |-> "throw", obj |-> EmptyObject]]

JSONParse(text) == ParseTable[text]


(***************************************************************************)
(* Chat terminal: reply extraction (part_000:47-60).                       *)
(***************************************************************************)
Nullish(v) == v.k \in {"undef", "null"}

\* Mutant: `||` in place of `??`, which also skips an empty string.
CoalesceFalsy(a, b) == IF Nullish(a) \/ a.s = <<>> THEN b ELSE a

\* a ?? b
Coalesce(a, b) == IF Nullish(a) THEN b ELSE a

\* json.choices?.[0]?.message?.content
FirstChoiceContent(c) == IF c.shape = "content" THEN c.content ELSE Undef

\* The first non-nullish of reply, content, message, the first choice's
\* message content, and the raw text.
ProbeReply(json, text) ==
    Coalesce(json.reply,
        Coalesce(json.content,
            Coalesce(json.message,
                Coalesce(FirstChoiceContent(json.choices), Str(text))))).s

\* The value of `reply` after the inner try/catch.  An empty body is not
\* parsed (json = {}); reading a member of the JSON null throws a TypeError,
\* which the same catch handles as it handles the SyntaxError.
ResolveReply(text) ==
    LET parsed == IF text # <<>> THEN JSONParse(text)
                  ELSE [kind |-> "obj", obj |-> EmptyObject]
    IN  IF parsed.kind = "obj" THEN ProbeReply(parsed.obj, text)
        ELSE IF text # <<>> THEN text ELSE <<"(empty response)">>

\* The resolved reply appended as it is.
AssistantContentAsResolved(text) == ResolveReply(text)

\* reply || "(no content)"
AssistantContent(text) ==
    LET r == ResolveReply(text)
    IN  IF r # <<>> THEN r ELSE <<"(no content)">>

(***************************************************************************)
(* Chat terminal: the send/receive cycle (part_000:21-73).                 *)
(***************************************************************************)
origin == "https://api.example"

Msg(role, content) == [role |-> role, content |-> content]

StatusLine(ms) == <<"responded in ", ToString(ms), "ms from ", origin>>
FailedLine == <<"request failed">>

\* e?.message || "Network error"
ErrorText(e) == IF e # <<>> THEN e ELSE <<"Network error">>

\* Inputs of the environment: the HTTP status of a response, the message of
\* a rejection, the bodies a response can carry, the elapsed milliseconds.
HttpStatuses == {200, 404, 500}
Rejections == {<<>>, <<"Failed to fetch">>}
ChatBodies ==
    {ObjectText([EmptyObject EXCEPT !.reply = Str(<<"A">>)]),
     ObjectText([EmptyObject EXCEPT !.reply = Str(<<>>)]),
     ObjectText(EmptyObject), PlainText, <<>>}
ElapsedMs == 0..MaxMs

RemoveAt(s, k) == SubSeq(s, 1, k - 1) \o SubSeq(s, k + 1, Len(s))

\* A body that carries the new line alone.
RequestBodyNewLineOnly(text) == <<Msg("user", text)>>

\* messages.map(({role, content}) => ({role, content})) plus the new line.
\* send() reads the `messages`, `input` and `busy` of the render that made
\* it; React commits the updates of one event before it handles the next,
\* so these are the state at the time of the event.
RequestBody(text) ==
    [n \in 1..Len(messages) |-> Msg(messages[n].role, messages[n].content)]
        \o <<Msg("user", text)>>

\* Mutant: the guard tests the input as typed, not the trimmed text.
AcceptsUntrimmed(text) == input # <<>> /\ ~busy

\* Mutant: the guard does not test the busy flag.
AcceptsWhileBusy(text) == text # <<>>

\* The guard of send(): `if (!text || busy) return`.
Accepts(text) == text # <<>> /\ ~busy

\* onChange of the textarea.
SetInput(v) ==
    /\ input' = v
    /\ ev' = "setInput"
    /\ UNCHANGED <<messages, busy, err, inflight>>

\* send() up to `await fetch(...)`: a click on Send or Enter in the textarea.
send ==
    LET text == trim(input)
    IN  /\ ev' = "send"
        /\ IF Accepts(text)
           THEN /\ Len(messages) + 2 * Len(inflight) + 3 <= MaxMsgs
                /\ err' = Null
                /\ busy' = TRUE
                /\ messages' = Append(messages, Msg("user", text))
                /\ input' = <<>>
                /\ inflight' = Append(inflight,
                        [pc |-> "fetch", body |-> RequestBody(text), status |-> 0])
           ELSE UNCHANGED chatVars

\* fetch resolves with a response of any status: send() goes on to
\* `await res.text()`.
FetchResolve(k, status) ==
    /\ k \in 1..Len(inflight)
    /\ inflight[k].pc = "fetch"
    /\ inflight' = [inflight EXCEPT ![k].pc = "text", ![k].status = status]
    /\ ev' = "fetchResolve"
    /\ UNCHANGED <<messages, input, busy, err>>

\* Mutant: no finally block, the busy flag is cleared on success only.
FailKeepsBusy(k, e) ==
    /\ err' = Some(ErrorText(e))
    /\ messages' = Append(messages, Msg("system", FailedLine))
    /\ inflight' = RemoveAt(inflight, k)
    /\ UNCHANGED <<input, busy>>

\* Mutant: the catch block does not record the error string.
FailWithoutErr(k, e) ==
    /\ messages' = Append(messages, Msg("system", FailedLine))
    /\ busy' = FALSE
    /\ inflight' = RemoveAt(inflight, k)
    /\ UNCHANGED <<input, err>>

\* The catch and finally blocks.
Fail(k, e) ==
    /\ err' = Some(ErrorText(e))
    /\ messages' = Append(messages, Msg("system", FailedLine))
    /\ busy' = FALSE
    /\ inflight' = RemoveAt(inflight, k)
    /\ UNCHANGED input

\* fetch rejects.
FetchReject(k, e) ==
    /\ k \in 1..Len(inflight)
    /\ inflight[k].pc = "fetch"
    /\ ev' = "fetchReject"
    /\ Fail(k, e)

\* res.text() rejects.
TextReject(k, e) ==
    /\ k \in 1..Len(inflight)
    /\ inflight[k].pc = "text"
    /\ ev' = "textReject"
    /\ Fail(k, e)

\* Mutant: a response that is not 2xx is handled as a failure.
TextResolveOkOnly(k, text, ms) ==
    /\ k \in 1..Len(inflight)
    /\ inflight[k].pc = "text"
    /\ ev' = "textResolve"
    /\ IF inflight[k].status \in 200..299
       THEN /\ messages' = messages \o <<Msg("assistant", AssistantContent(text)),
                                         Msg("system", StatusLine(ms))>>
            /\ busy' = FALSE
            /\ inflight' = RemoveAt(inflight, k)
            /\ UNCHANGED <<input, err>>
       ELSE Fail(k, <<>>)

\* res.text() resolves with the raw body: the rest of the try block and the
\* finally block.
TextResolve(k, text, ms) ==
    /\ k \in 1..Len(inflight)
    /\ inflight[k].pc = "text"
    /\ messages' = messages \o <<Msg("assistant", AssistantContent(text)),
                                 Msg("system", StatusLine(ms))>>
    /\ busy' = FALSE
    /\ inflight' = RemoveAt(inflight, k)
    /\ ev' = "textResolve"
    /\ UNCHANGED <<input, err>>

ChatInit ==
    /\ messages = <<>>
    /\ input = <<>>
    /\ busy = FALSE
    /\ err = Null
    /\ inflight = <<>>

(***************************************************************************)
(* Reply extraction on its own: lines 46-60 applied to each body explored. *)
(***************************************************************************)
ReplyIdle == raw = <<>> /\ reply = Null

Resolve ==
    /\ reply = Null
    /\ reply' = Some(ResolveReply(raw))
    /\ ev' = "resolve"
    /\ UNCHANGED <<raw, messages, input, busy, err, inflight>>


(***************************************************************************)
(* Rollout pie: playback (part_000:177-220).                               *)
(***************************************************************************)
Day(d, e, p, f) == [day |-> d, encrypted |-> e, pending |-> p, failed |-> f]

\* A rollout of n days: encryption progresses by one machine a day.
DaysOfLen(n) == [d \in 1..n |-> Day(d, d - 1, n - d, 0)]
DaysInputs == {DaysOfLen(n) : n \in 1..MaxDays}

\* Mutant: start() without its guard.
StartAlways == TRUE

\* `if (playing) return`, `playing` being the state at the time of the
\* click (the Start button is re-rendered before the next click).
StartAllowed == ~playing

\* A start() that leaves the index where the last playback ended.
startKeepsIndex ==
    /\ mounted
    /\ ev' = "start"
    /\ IF StartAllowed
       THEN /\ nextTimer + Len(days) - 1 <= MaxTimers
            /\ playing' = TRUE
            /\ timers' = timers \cup {[id |-> nextTimer, step |-> 0]}
            /\ tRef' = Some(nextTimer)
            /\ nextTimer' = nextTimer + 1
            /\ UNCHANGED <<days, mounted, i>>
       ELSE UNCHANGED pieVars

\* start(): a click on the Start button.
start ==
    /\ mounted
    /\ ev' = "start"
    /\ IF StartAllowed
       THEN /\ nextTimer + Len(days) - 1 <= MaxTimers
            /\ playing' = TRUE
            /\ i' = 0
            /\ timers' = timers \cup {[id |-> nextTimer, step |-> 0]}
            /\ tRef' = Some(nextTimer)
            /\ nextTimer' = nextTimer + 1
            /\ UNCHANGED <<days, mounted>>
       ELSE UNCHANGED pieVars

\* Mutant: `step > days.length` in place of `step >= days.length`.
tickOffByOne(t) ==
    /\ t \in timers
    /\ ev' = "tick"
    /\ LET step == t.step + 1
       IN  IF step > Len(days)
           THEN /\ playing' = IF mounted THEN FALSE ELSE playing
                /\ tRef' = Null
                /\ timers' = timers \ {t}
                /\ UNCHANGED <<i, nextTimer>>
           ELSE /\ i' = IF mounted THEN step ELSE i
                /\ timers' = (timers \ {t}) \cup {[id |-> nextTimer, step |-> step]}
                /\ tRef' = Some(nextTimer)
                /\ nextTimer' = nextTimer + 1
                /\ UNCHANGED playing
    /\ UNCHANGED <<days, mounted>>

\* A tick() whose last step falls through to the scheduling of the next.
tickReschedulesAtEnd(t) ==
    /\ t \in timers
    /\ ev' = "tick"
    /\ LET step == t.step + 1
       IN  /\ playing' = IF mounted /\ step >= Len(days) THEN FALSE ELSE playing
           /\ i' = IF mounted THEN step ELSE i
           /\ timers' = (timers \ {t}) \cup {[id |-> nextTimer, step |-> step]}
           /\ tRef' = Some(nextTimer)
           /\ nextTimer' = nextTimer + 1
    /\ UNCHANGED <<days, mounted>>

\* tick(): the timer t fires.  A state update of an unmounted component is
\* dropped by React.
tick(t) ==
    /\ t \in timers
    /\ ev' = "tick"
    /\ LET step == t.step + 1
       IN  IF step >= Len(days)
           THEN /\ playing' = IF mounted THEN FALSE ELSE playing
                /\ tRef' = Null
                /\ timers' = timers \ {t}
                /\ UNCHANGED <<i, nextTimer>>
           ELSE /\ i' = IF mounted THEN step ELSE i
                /\ timers' = (timers \ {t}) \cup {[id |-> nextTimer, step |-> step]}
                /\ tRef' = Some(nextTimer)
                /\ nextTimer' = nextTimer + 1
                /\ UNCHANGED playing
    /\ UNCHANGED <<days, mounted>>

\* Mutant: no cleanup, the pending timer is left to fire.
ClearNothing == timers

\* The effect's cleanup: `if (tRef.current) window.clearTimeout(tRef.current)`.
ClearPending == IF tRef # Null THEN {t \in timers : t.id # tRef[1]} ELSE timers

\* The widget is torn down.
unmount ==
    /\ mounted
    /\ mounted' = FALSE
    /\ timers' = ClearPending
    /\ ev' = "unmount"
    /\ UNCHANGED <<days, i, playing, tRef, nextTimer>>

PieInit ==
    /\ days \in DaysInputs
    /\ i = 0
    /\ playing = FALSE
    /\ tRef = Null
    /\ timers = {}
    /\ nextTimer = 1
    /\ mounted = TRUE

PieIdle == PieInit /\ days = DaysOfLen(1)

(***************************************************************************)
(* Rollout pie: the fractions of the snapshot shown (part_000:182-196).    *)
(* A fraction n / total is kept as numerator and denominator.              *)
(***************************************************************************)
Max(a, b) == IF a >= b THEN a ELSE b

\* A denominator that is the plain sum of the counts.
TotalUnfloored(d) == d.encrypted + d.pending + d.failed

\* Math.max(1, d.encrypted + d.pending + d.failed)
TotalOf(d) == Max(1, d.encrypted + d.pending + d.failed)

\* const f = (n) => n / total
Frac(n, t) == [num |-> n, den |-> t]

Segs(d, t) ==
    <<[label |-> "Encrypted", val |-> d.encrypted, frac |-> Frac(d.encrypted, t)],
      [label |-> "Pending", val |-> d.pending, frac |-> Frac(d.pending, t)],
      [label |-> "Failed", val |-> d.failed, frac |-> Frac(d.failed, t)]>>

\* The snapshots rendered: every triple of counts up to MaxCount.
Snapshots ==
    {Day(1, e, p, f) : e \in 0..MaxCount, p \in 0..MaxCount, f \in 0..MaxCount}

\* A render: the two memos are computed from days[i] (the array is
\* 0-based in the source, 1-based here).
render ==
    /\ total = Null
    /\ LET d == days[i + 1]
       IN  /\ total' = Some(TotalOf(d))
           /\ segs' = Some(Segs(d, TotalOf(d)))
    /\ ev' = "render"
    /\ UNCHANGED pieVars

\* The memos before the first render.
FracIdle == total = Null /\ segs = Null

(***************************************************************************)
(* Diagnostics panel: the request/animate cycle                            *)
(* (CloudLabPanel.tsx:94-211).                                             *)
(***************************************************************************)
root == "https://lab.example"
Paths == {"/api/health", "/api/ping", "/api/dbcheck"}
\* The buttons pressed in the runs explored.
Clicked == {"/api/health", "/api/ping"}

\* Response.ok of the fetch standard.
ResponseOk(status) == status \in 200..299

\* Inputs of the environment: responses, what a rejection throws (nothing
\* with a message, or an Error with one), response bodies.
Responses ==
    {[status |-> 200, statusText |-> "OK"],
     [status |-> 500, statusText |-> ""]}
Thrown == {Some("Failed to fetch")}
PanelBodies == {PlainText}

\* e?.message ?? "Network error"
ThrownText(e) == IF e = Null THEN "Network error" ELSE e[1]

\* s.replace(/\s+/g, " "): each run of white space becomes one space.
RECURSIVE CollapseSpaces(_)
CollapseSpaces(s) ==
    IF s = <<>> THEN s
    ELSE IF IsSpace(Head(s)) THEN <<" ">> \o CollapseSpaces(TrimStart(s))
    ELSE <<Head(s)>> \o CollapseSpaces(Tail(s))

\* trimPreview(s, max = 260).
PreviewMax == 260
trimPreview(s) ==
    LET t == trim(CollapseSpaces(s))
    IN  IF Len(t) > PreviewMax THEN SubSeq(t, 1, PreviewMax) \o <<" ...">>
        ELSE IF t # <<>> THEN t ELSE <<"(empty)">>

\* bodyPreview of a body that is no JSON text: JSON.parse throws, and for
\* the empty body previewJson(undefined) throws, into `catch`, which
\* previews the raw text.
BodyPreview(body) == trimPreview(body)

CallResult(path, ok, status, statusText, bodyPreview) ==
    [url |-> <<root, path>>, ok |-> ok, status |-> status,
     statusText |-> statusText, bodyPreview |-> bodyPreview]

\* The positions of the marker: 0 the path's start, 2 its end, 1 between.
\* animateT(from, to) at progress p of 0..2 places the marker at:
SweepAt(from, to, p) == from + ((to - from) * p) \div 2

\* A click that cancels the runs in progress.
runCancelsEarlier(path) ==
    /\ Len(runs) < MaxRuns
    /\ error' = Null
    /\ packet' = [display |-> TRUE, fill |-> "green", t |-> 0]
    /\ paused' = TRUE
    /\ runs' = Append([n \in 1..Len(runs) |-> [runs[n] EXCEPT !.pc = "done"]],
                      [path |-> path, pc |-> "forward", settled |-> "no",
                       r |-> Null, res |-> Null])
    /\ UNCHANGED history

\* run(path) up to `await animateT(0, 1, 420)`: a click on a button.
run(path) ==
    /\ Len(runs) < MaxRuns
    /\ error' = Null
    /\ packet' = [display |-> TRUE, fill |-> "green", t |-> 0]
    /\ paused' = TRUE
    /\ runs' = Append(runs, [path |-> path, pc |-> "forward", settled |-> "no",
                             r |-> Null, res |-> Null])
    /\ UNCHANGED history

\* A forward sweep that run() does not await.
ForwardFrameUnawaited(n, p) ==
    /\ runs[n].pc = "forward"
    /\ packet' = [packet EXCEPT !.t = SweepAt(0, 2, p)]
    /\ runs' = [runs EXCEPT ![n].pc = "fetch"]
    /\ UNCHANGED <<history, error, paused>>

\* A frame of the forward sweep; at progress 2 the promise resolves and
\* run() goes on into call() up to `await fetch(...)`.
ForwardFrame(n, p) ==
    /\ runs[n].pc = "forward"
    /\ packet' = [packet EXCEPT !.t = SweepAt(0, 2, p)]
    /\ runs' = [runs EXCEPT ![n].pc = IF p = 2 THEN "fetch" ELSE "forward"]
    /\ UNCHANGED <<history, error, paused>>

\* fetch resolves: call() goes on to `await r.text()`.
CallFetchResolve(n, resp) ==
    /\ runs[n].pc = "fetch"
    /\ runs' = [runs EXCEPT ![n].pc = "text", ![n].r = Some(resp)]
    /\ UNCHANGED <<history, error, packet, paused>>

\* A history kept newest first.
ReturnedNewestFirst(n, how, res) ==
    /\ history' = <<res>> \o history
    /\ packet' = [packet EXCEPT !.fill = IF res.ok THEN "green" ELSE "red"]
    /\ runs' = [runs EXCEPT ![n].pc = "delay", ![n].settled = how, ![n].res = Some(res)]
    /\ UNCHANGED <<error, paused>>

\* call() returns res after its GET settled (resolved or rejected): run()
\* appends res to history, colours the marker and goes on to
\* `await delay(150)`.
Returned(n, how, res) ==
    /\ history' = Append(history, res)
    /\ packet' = [packet EXCEPT !.fill = IF res.ok THEN "green" ELSE "red"]
    /\ runs' = [runs EXCEPT ![n].pc = "delay", ![n].settled = how, ![n].res = Some(res)]
    /\ UNCHANGED <<error, paused>>

\* The catch block of call().
Caught(n, e) ==
    Returned(n, "rejected",
             CallResult(runs[n].path, FALSE, 0, ThrownText(e), <<"(request failed)">>))

\* A rejection of fetch that call() does not catch: run() ends there.
CallFetchRejectUncaught(n, e) ==
    /\ runs[n].pc = "fetch"
    /\ runs' = [runs EXCEPT ![n].pc = "done", ![n].settled = "rejected"]
    /\ UNCHANGED <<history, error, packet, paused>>

\* fetch rejects.
CallFetchReject(n, e) ==
    /\ runs[n].pc = "fetch"
    /\ Caught(n, e)

\* r.text() rejects.
CallTextReject(n, e) ==
    /\ runs[n].pc = "text"
    /\ Caught(n, e)

\* r.text() resolves with the body.
CallTextResolve(n, body) ==
    /\ runs[n].pc = "text"
    /\ LET r == runs[n].r[1]
       IN  Returned(n, "resolved",
                    CallResult(runs[n].path, ResponseOk(r.status), r.status,
                               r.statusText, BodyPreview(body)))

\* delay(150) elapses: run() goes on to `await animateT(1, 0, 420)`.
DelayElapsed(n) ==
    /\ runs[n].pc = "delay"
    /\ packet' = [packet EXCEPT !.t = 2]
    /\ runs' = [runs EXCEPT ![n].pc = "backward"]
    /\ UNCHANGED <<history, error, paused>>

\* `if (!res.ok) setError(...)`.
ErrorAfter(res) ==
    IF ~res.ok
    THEN Some(<<"Request failed (", ToString(res.status), " ", res.statusText, ")">>)
    ELSE error

\* A run that appends its call result once more when it ends.
BackwardFrameAppends(n, p) ==
    /\ runs[n].pc = "backward"
    /\ IF p = 2
       THEN /\ packet' = [packet EXCEPT !.t = SweepAt(2, 0, p), !.display = FALSE]
            /\ paused' = FALSE
            /\ error' = ErrorAfter(runs[n].res[1])
            /\ runs' = [runs EXCEPT ![n].pc = "done"]
            /\ history' = Append(history, runs[n].res[1])
       ELSE /\ packet' = [packet EXCEPT !.t = SweepAt(2, 0, p)]
            /\ UNCHANGED <<paused, error, runs, history>>

\* A frame of the backward sweep; at progress 2 run() hides the marker,
\* resumes the path and sets the error string of a failed call.
BackwardFrame(n, p) ==
    /\ runs[n].pc = "backward"
    /\ IF p = 2
       THEN /\ packet' = [packet EXCEPT !.t = SweepAt(2, 0, p), !.display = FALSE]
            /\ paused' = FALSE
            /\ error' = ErrorAfter(runs[n].res[1])
            /\ runs' = [runs EXCEPT ![n].pc = "done"]
       ELSE /\ packet' = [packet EXCEPT !.t = SweepAt(2, 0, p)]
            /\ UNCHANGED <<paused, error, runs>>
    /\ UNCHANGED history

\* What a render of the panel can throw: a value without a message, an
\* Error made without a message (its message is the empty string), an
\* Error with a message.
RenderFaults == {Null, Some(""), Some("x is undefined")}

\* A boundary that takes an empty message for no message.
DerivedErrFalsy(e) == IF e = Null \/ e = Some("") THEN "Unknown error" ELSE e[1]

\* getDerivedStateFromError: e?.message ?? "Unknown error"
DerivedErr(e) == IF e = Null THEN "Unknown error" ELSE e[1]

\* render() of the boundary: `if (this.state.err)` shows the fallback, and
\* the children otherwise; the empty string is falsy.
ShowsFallback == boundaryErr # Null /\ boundaryErr[1] # ""

\* A render of the boundary's children throws e: React calls
\* getDerivedStateFromError and renders the boundary again.  Children are
\* rendered only while the fallback is not shown.
RenderThrows(e) ==
    /\ ~ShowsFallback
    /\ boundaryErr' = Some(DerivedErr(e))
    /\ ev' = "renderThrows"
    /\ UNCHANGED <<history, error, runs, packet, paused>>

PanelInit ==
    /\ boundaryErr = Null
    /\ history = <<>>
    /\ error = Null
    /\ runs = <<>>
    /\ packet = [display |-> FALSE, fill |-> "green", t |-> 0]
    /\ paused = FALSE

(***************************************************************************)
(* Diagnostics panel: the cascading reveal, useCascade                     *)
(* (CloudLabPanel.tsx:39-73, called at 108-116).                           *)
(*                                                                         *)
(* The effect of useCascade depends on li, ci and `lines`, and the panel   *)
(* passes a new array literal as `lines` in every render: after every      *)
(* render of the panel the cleanup of the last effect runs (its closure's  *)
(* `alive` becomes false) and the effect runs again, calling step() at     *)
(* once with the li and ci of that render.  A render together with the run *)
(* of its effect is one action; the updates of one callback are batched    *)
(* into one render.  step() always sets a new array with setOuts, so a     *)
(* render always follows.  The msPerChar timeouts end in                   *)
(* requestAnimationFrame(step) for the step of an effect that has been     *)
(* cleaned up by then (`if (!alive) return`): they do nothing and are left *)
(* out.  The callback of a linePause timeout does not test `alive`;        *)
(* timeouts of the same delay fire in the order they were set.             *)
(***************************************************************************)
Min(a, b) == IF a <= b THEN a ELSE b

\* The three lines passed by the panel, cut to their first MaxLineLen
\* characters.
Health == <<"H", "e", "a", "l", "t", "h">>
Ping == <<"P", "i", "n", "g", ":", " ">>
DBCheck == <<"D", "B", " ", "C", "h", "e">>
lines ==
    <<SubSeq(Health, 1, MaxLineLen), SubSeq(Ping, 1, MaxLineLen),
      SubSeq(DBCheck, 1, MaxLineLen)>>

\* step(), run by the effect after a render (li and ci count from 0).
step ==
    /\ li < Len(lines)
    /\ LET line == lines[li + 1]
           next == Min(Len(line), ci + 1)
       IN  /\ outs' = [outs EXCEPT ![li + 1] = SubSeq(line, 1, next)]
           /\ ci' = next
           /\ IF next >= Len(line)
              THEN /\ Len(pauses) < MaxPauses
                   /\ pauses' = Append(pauses, li)
              ELSE UNCHANGED pauses
    /\ UNCHANGED li

\* The callback of the linePause timeout set first fires: setLi(li + 1)
\* with the li of its closure, setCi(0).
linePauseElapsed ==
    /\ pauses # <<>>
    /\ li' = Head(pauses) + 1
    /\ ci' = 0
    /\ pauses' = Tail(pauses)
    /\ UNCHANGED outs

\* Array(lines.length).fill(""), 0, 0.
CascadeInit ==
    /\ outs = [k \in 1..Len(lines) |-> <<>>]
    /\ li = 0
    /\ ci = 0
    /\ pauses = <<>>

(***************************************************************************)
(* Specifications: one per widget, the other widgets idle.                 *)
(***************************************************************************)
ChatStep == UNCHANGED <<replyVars, pieVars, fracVars, panelVars, cascadeVars>>
ReplyStep == UNCHANGED <<pieVars, fracVars, panelVars, cascadeVars>>
PieStep == UNCHANGED <<chatVars, replyVars, fracVars, panelVars, cascadeVars>>
FracStep == UNCHANGED <<chatVars, replyVars, panelVars, cascadeVars>>
PanelStep ==
    UNCHANGED <<chatVars, replyVars, pieVars, fracVars, cascadeVars, ev, boundaryErr>>
BoundaryStep == UNCHANGED <<chatVars, replyVars, pieVars, fracVars, cascadeVars>>
CascadeStep == UNCHANGED <<chatVars, replyVars, pieVars, fracVars, panelVars, ev>>

InitChat == ChatInit /\ ReplyIdle /\ FracIdle /\ PieIdle /\ PanelInit /\ CascadeInit /\ ev = "init"
NextChat ==
    \/ \E v \in Inputs : SetInput(v) /\ ChatStep
    \/ send /\ ChatStep
    \/ \E k \in 1..Len(inflight), status \in HttpStatuses :
            FetchResolve(k, status) /\ ChatStep
    \/ \E k \in 1..Len(inflight), e \in Rejections : FetchReject(k, e) /\ ChatStep
    \/ \E k \in 1..Len(inflight), e \in Rejections : TextReject(k, e) /\ ChatStep
    \/ \E k \in 1..Len(inflight), text \in ChatBodies, ms \in ElapsedMs :
            TextResolve(k, text, ms) /\ ChatStep
SpecChat == InitChat /\ [][NextChat]_vars

\* The request settles: fetch and res.text() each resolve or reject.
FetchSettles ==
    \/ \E k \in 1..Len(inflight), status \in HttpStatuses :
            FetchResolve(k, status) /\ ChatStep
    \/ \E k \in 1..Len(inflight), e \in Rejections : FetchReject(k, e) /\ ChatStep
TextSettles ==
    \/ \E k \in 1..Len(inflight), e \in Rejections : TextReject(k, e) /\ ChatStep
    \/ \E k \in 1..Len(inflight), text \in ChatBodies, ms \in ElapsedMs :
            TextResolve(k, text, ms) /\ ChatStep
FairSpecChat == SpecChat /\ WF_vars(FetchSettles) /\ WF_vars(TextSettles)

InitReply ==
    /\ ChatInit /\ PieIdle /\ FracIdle /\ PanelInit /\ CascadeInit /\ ev = "init"
    /\ raw \in Bodies
    /\ reply = Null
NextReply == Resolve /\ ReplyStep
SpecReply == InitReply /\ [][NextReply]_vars

InitFrac ==
    /\ ChatInit /\ ReplyIdle /\ PanelInit /\ CascadeInit /\ ev = "init"
    /\ days \in {<<d>> : d \in Snapshots}
    /\ i = 0
    /\ playing = FALSE
    /\ tRef = Null
    /\ timers = {}
    /\ nextTimer = 1
    /\ mounted = TRUE
    /\ FracIdle
NextFrac == render /\ FracStep
SpecFrac == InitFrac /\ [][NextFrac]_vars

InitPie == ChatInit /\ ReplyIdle /\ FracIdle /\ PieInit /\ PanelInit /\ CascadeInit /\ ev = "init"
NextPie ==
    \/ start /\ PieStep
    \/ \E t \in timers : tick(t) /\ PieStep
    \/ unmount /\ PieStep
SpecPie == InitPie /\ [][NextPie]_vars

\* The browser fires every pending timer.
TimerFires == \E t \in timers : tick(t) /\ PieStep
FairSpecPie == SpecPie /\ WF_vars(TimerFires)

InitPanel == ChatInit /\ ReplyIdle /\ FracIdle /\ PieIdle /\ PanelInit /\ CascadeInit /\ ev = "init"
NextPanel ==
    \/ \E path \in Clicked : run(path) /\ PanelStep
    \/ \E n \in 1..Len(runs), p \in 0..2 : ForwardFrame(n, p) /\ PanelStep
    \/ \E n \in 1..Len(runs), resp \in Responses : CallFetchResolve(n, resp) /\ PanelStep
    \/ \E n \in 1..Len(runs), e \in Thrown : CallFetchReject(n, e) /\ PanelStep
    \/ \E n \in 1..Len(runs), e \in Thrown : CallTextReject(n, e) /\ PanelStep
    \/ \E n \in 1..Len(runs), body \in PanelBodies : CallTextResolve(n, body) /\ PanelStep
    \/ \E n \in 1..Len(runs) : DelayElapsed(n) /\ PanelStep
    \/ \E n \in 1..Len(runs), p \in 0..2 : BackwardFrame(n, p) /\ PanelStep
SpecPanel == InitPanel /\ [][NextPanel]_vars

InitCascade == ChatInit /\ ReplyIdle /\ FracIdle /\ PieIdle /\ PanelInit /\ CascadeInit /\ ev = "init"
NextCascade ==
    \/ step /\ CascadeStep
    \/ linePauseElapsed /\ CascadeStep
SpecCascade == InitCascade /\ [][NextCascade]_vars

\* The panel inside its error boundary.  React discards the subtree whose
\* render threw, so the runs of the panel are followed up to the first
\* exception the boundary catches.
InitBoundary == InitPanel
NextBoundary ==
    \/ NextPanel /\ boundaryErr = Null
    \/ \E e \in RenderFaults : RenderThrows(e) /\ BoundaryStep
SpecBoundary == InitBoundary /\ [][NextBoundary]_vars

\* A session with the chat terminal and the diagnostics panel.  The widgets
\* share no state, each handler reads and writes the state of its own
\* widget only, so the steps a widget can take beside the other widget are
\* the steps it can take alone: the session explores each widget from the
\* page as loaded, the other one not yet used.
InitSession == ChatInit /\ ReplyIdle /\ FracIdle /\ PieIdle /\ PanelInit /\ CascadeInit /\ ev = "init"
NextSession ==
    \/ NextChat /\ runs = <<>>
    \/ NextPanel /\ ev = "init"
SpecSession == InitSession /\ [][NextSession]_vars

\* The page: the three widgets side by side.
Init == ChatInit /\ ReplyIdle /\ PieInit /\ FracIdle /\ PanelInit /\ CascadeInit /\ ev = "init"
Next == NextChat \/ NextPie \/ NextPanel
Spec == Init /\ [][Next]_vars

(***************************************************************************)
(* Properties.                                                             *)
(***************************************************************************)
Last(s) == s[Len(s)]
Roles(s) == [n \in 1..Len(s) |-> s[n].role]

\* C1: an accepted submit (trimmed input non-empty, not busy) appends one
\* user message holding the trimmed input; until its POST has returned a
\* response nothing more is appended; when the response has been read, of
\* whatever HTTP status, exactly one assistant message and then one system
\* status message are appended right behind that user message.
C1_ResponseAppendsThree ==
    [][/\ (ev' = "send" /\ trim(input) # <<>> /\ ~busy)
            => messages' = Append(messages, Msg("user", trim(input)))
       /\ (ev' \in {"setInput", "fetchResolve"}) => messages' = messages
       /\ (ev' = "textResolve")
            => /\ Len(messages) >= 1
               /\ Last(messages).role = "user"
               /\ Len(messages') = Len(messages) + 2
               /\ SubSeq(messages', 1, Len(messages)) = messages
               /\ messages'[Len(messages) + 1].role = "assistant"
               /\ messages'[Len(messages) + 2].role = "system"
               /\ messages'[Len(messages) + 2].content # FailedLine]_vars

\* The response to the first submit has been read and answered with the
\* three messages.
C1_Witness ==
    /\ ev = "textResolve"
    /\ Roles(messages) = <<"user", "assistant", "system">>
    /\ messages[1].content = <<"a">>

\* C2: a submit made while busy, or with empty or whitespace-only input,
\* leaves the transcript, the input, the error string and the busy flag
\* unchanged and issues no request.
C2_RejectedSubmitNoOp ==
    [][(ev' = "send" /\ (busy \/ trim(input) = <<>>)) => UNCHANGED chatVars]_vars

\* A submit of whitespace-only input has been rejected.
C2_Witness ==
    /\ ev = "send"
    /\ ~busy
    /\ input # <<>>
    /\ trim(input) = <<>>

\* C3: at most one POST is outstanding in every reachable state, and a
\* submit arriving while one is outstanding changes nothing.
C3_SingleInFlight ==
    /\ [](Len(inflight) <= 1)
    /\ [][(ev' = "send" /\ Len(inflight) >= 1) => UNCHANGED chatVars]_vars

\* A submit of non-empty input has been rejected while the response body of
\* the outstanding request was being read.
C3_Witness ==
    /\ ev = "send"
    /\ Len(inflight) = 1
    /\ inflight[1].pc = "text"
    /\ trim(input) # <<>>

LastFailed ==
    /\ Len(messages) >= 1
    /\ Last(messages) = Msg("system", FailedLine)

\* C4: when the request settles, busy is eventually false again, whether it
\* resolved or rejected; a rejection clears busy at once, and the next
\* non-empty submit after a failed attempt is accepted and issues a request.
C4_BusyCleared ==
    /\ busy ~> ~busy
    /\ [][(ev' \in {"fetchReject", "textReject"}) => ~busy']_vars
    /\ [][(LastFailed /\ ev' = "send" /\ trim(input) # <<>>)
            => /\ busy'
               /\ Len(inflight') = Len(inflight) + 1
               /\ Last(inflight').pc = "fetch"]_vars

\* A submit has been accepted right after a failed attempt.
C4_Witness ==
    /\ ev = "send"
    /\ busy
    /\ Len(inflight) = 1
    /\ Len(messages) >= 3
    /\ messages[Len(messages) - 1] = Msg("system", FailedLine)

\* C5: when the fetch or the body read rejects, the transcript grows by
\* exactly one system failure message right behind the user message of that
\* submit (no assistant message, no status message), and the error string
\* is non-null afterwards.
C5_TransportFailure ==
    [][(ev' \in {"fetchReject", "textReject"})
            => /\ Len(messages) >= 1
               /\ Last(messages).role = "user"
               /\ messages' = Append(messages, Msg("system", FailedLine))
               /\ err' # Null]_vars

\* The body read of the first submit has rejected.
C5_Witness ==
    /\ ev = "textReject"
    /\ Roles(messages) = <<"user", "system">>
    /\ messages[2].content = FailedLine
    /\ err # Null

\* A member is present when it holds a value: it is neither missing nor null.
Present(v) == v.k = "str"

\* The first present of reply, content, message and
\* choices[0].message.content, the raw text when none is.
FirstPresent(o, text) ==
    IF Present(o.reply) THEN o.reply.s
    ELSE IF Present(o.content) THEN o.content.s
    ELSE IF Present(o.message) THEN o.message.s
    ELSE IF o.choices.shape = "content" /\ Present(o.choices.content)
    THEN o.choices.content.s
    ELSE text

\* C6: the resolved reply text of a body that is a JSON object is its first
\* present member in the order reply, content, message,
\* choices[0].message.content, and the raw text when none is present; a body
\* that is no JSON, or no JSON object, resolves to the raw text.
C6_ReplyPrecedence ==
    reply # Null =>
        /\ \A o \in JsonObjects : ObjectText(o) = raw => reply[1] = FirstPresent(o, raw)
        /\ raw \in {PlainText, NullText, NumberText, <<>>} => reply[1] = raw

\* The body {"content":"B","message":"C"} has resolved to "B".
C6_Witness ==
    /\ raw = ObjectText([EmptyObject EXCEPT !.content = Str(<<"B">>),
                                            !.message = Str(<<"C">>)])
    /\ reply = Some(<<"B">>)

\* C7: a start arriving while playback is running changes neither the index
\* nor the playing flag nor the pending step timers.
C7_StartIdempotent ==
    [][(ev' = "start" /\ playing) => UNCHANGED <<i, playing, timers, tRef, nextTimer>>]_vars

\* Start has been pressed again in the middle of a playback.
C7_Witness ==
    /\ ev = "start"
    /\ playing
    /\ i >= 1
    /\ Cardinality(timers) = 1

PlaybackOver ==
    /\ ~playing
    /\ timers = {}
    /\ tRef = Null
    /\ i = Len(days) - 1

\* C8: once playback is started, and unless the widget is torn down, the
\* playing flag returns to false with no timer pending and the index at the
\* last snapshot.
C8_PlaybackEnds == playing ~> (PlaybackOver \/ ~mounted)

\* A playback over several days has run to its end.
C8_Witness ==
    /\ ev = "tick"
    /\ mounted
    /\ Len(days) >= 2
    /\ PlaybackOver

\* C9: after teardown no step timer is pending, and neither the index nor
\* the playing flag changes again.
C9_TeardownCancels ==
    /\ [](~mounted => timers = {})
    /\ [][~mounted => (ev' # "tick" /\ UNCHANGED <<i, playing, timers>>)]_vars

\* The widget has been torn down in the middle of a playback.
C9_Witness ==
    /\ ~mounted
    /\ playing
    /\ i >= 1
    /\ tRef # Null

Settles(n) == runs[n].pc \in {"fetch", "text"} /\ runs'[n].pc = "delay"
Finishes(n) == runs[n].pc = "backward" /\ runs'[n].pc = "done"

\* C10: the history entry of a run mirrors the outcome of its GET, and so
\* does the error string once the run has finished: a 200 response gives
\* ok = true, status = 200 and no error string; any other response gives its
\* status and its ok indicator; a request that throws gives ok = false,
\* status = 0 and a non-empty error string.
C10_RunMirrorsOutcome ==
    [][\A n \in 1..Len(runs) :
        /\ (Settles(n) /\ runs'[n].settled = "resolved")
            => /\ history' = Append(history, runs'[n].res[1])
               /\ Last(history').status = runs[n].r[1].status
               /\ Last(history').ok = ResponseOk(runs[n].r[1].status)
        /\ (Settles(n) /\ runs'[n].settled = "rejected")
            => /\ history' = Append(history, runs'[n].res[1])
               /\ Last(history').status = 0
               /\ ~Last(history').ok
        /\ (Finishes(n) /\ runs[n].settled = "resolved" /\ runs[n].r[1].status = 200)
            => error' = Null
        /\ (Finishes(n) /\ runs[n].settled = "rejected")
            => (error' # Null /\ error'[1] # <<>>)]_vars

\* The part of C10 about the history entry alone.
C10_EntryMirrorsOutcome ==
    [][\A n \in 1..Len(runs) :
        /\ (Settles(n) /\ runs'[n].settled = "resolved")
            => /\ history' = Append(history, runs'[n].res[1])
               /\ Last(history').status = runs[n].r[1].status
               /\ Last(history').ok = ResponseOk(runs[n].r[1].status)
        /\ (Settles(n) /\ runs'[n].settled = "rejected")
            => /\ history' = Append(history, runs'[n].res[1])
               /\ Last(history').status = 0
               /\ ~Last(history').ok
        /\ (Finishes(n) /\ runs[n].settled = "rejected")
            => (error' # Null /\ error'[1] # <<>>)]_vars

\* A run answered with 200 has finished while the error string of an earlier
\* failed run is shown.
C10_Witness ==
    /\ Len(runs) = 2
    /\ runs[1].pc = "done" /\ runs[1].settled = "rejected"
    /\ runs[2].pc = "done" /\ runs[2].settled = "resolved"
    /\ runs[2].res[1].status = 200
    /\ error # Null

\* The run n takes a step of its own after its GET has settled: the pause
\* elapses or the backward sweep ends.
StepsAfterGet(n) ==
    /\ runs[n].pc \in {"delay", "backward"}
    /\ runs'[n].pc # runs[n].pc

\* C11, as stated: within one run, the call result is appended to history
\* as the last step, after the backward sweep has completed and the marker
\* has been hidden; history grows only in the step that ends a run.
C11_AppendedLast ==
    [][Len(history') > Len(history)
        => \E n \in 1..Len(runs) : Finishes(n) /\ ~packet'.display]_vars

\* C11, amended: within one run, the call result is appended to history in
\* the step in which the GET settles, before the pause and the backward
\* sweep, a step that does not hide the marker; the later steps of the run
\* leave history alone, and its last step hides the marker.
C11_AppendedWhenGetSettles ==
    [][\A n \in 1..Len(runs) :
        /\ Settles(n)
            => /\ history' = Append(history, runs'[n].res[1])
               /\ packet'.display = packet.display
        /\ StepsAfterGet(n) => history' = history
        /\ Finishes(n) => ~packet'.display]_vars

\* The result of the only run is in history while its backward sweep is
\* still under way and the marker is shown.
C11_Witness ==
    /\ Len(runs) = 1
    /\ runs[1].pc = "backward"
    /\ packet.display
    /\ packet.t = 1
    /\ history = <<runs[1].res[1]>>

IsPrefix(s, t) == Len(s) <= Len(t) /\ SubSeq(t, 1, Len(s)) = s

\* C12: the chat transcript and the call history are append-only: every
\* step leaves each of them a prefix of its next value, so that the
\* sequence of an earlier state is a prefix of the sequence of every later
\* state (nothing is removed, reordered, rewritten or deduplicated).
C12_AppendOnly ==
    [][IsPrefix(messages, messages') /\ IsPrefix(history, history')]_vars

\* Two overlapping runs have appended their results, the run clicked second
\* first.
C12_Witness ==
    /\ Len(runs) = 2
    /\ runs[1].path # runs[2].path
    /\ runs[1].settled # "no" /\ runs[2].settled # "no"
    /\ history = <<runs[2].res[1], runs[1].res[1]>>

\* The sum of the three numerators and the common denominator of segs.
NumSum(sg) == sg[1].frac.num + sg[2].frac.num + sg[3].frac.num
CountSum(d) == d.encrypted + d.pending + d.failed

\* C13: for every snapshot of non-negative counts with a positive sum the
\* three fractions have the sum of the counts as their denominator and
\* numerators that add up to it (they sum to 1); for the snapshot of three
\* zero counts the denominator is 1 and the three fractions are 0.
C13_FractionsSumToOne ==
    segs # Null =>
        LET d == days[i + 1]
            sg == segs[1]
        IN  /\ \A k \in 1..3 : sg[k].frac.den = total[1] /\ sg[k].frac.num >= 0
            /\ sg[1].frac.num = d.encrypted
            /\ sg[2].frac.num = d.pending
            /\ sg[3].frac.num = d.failed
            /\ CountSum(d) > 0 => (total[1] > 0 /\ NumSum(sg) = total[1])
            /\ CountSum(d) = 0
                => (total[1] = 1 /\ \A k \in 1..3 : sg[k].frac.num = 0)

\* The snapshot of three zero counts has been rendered.
C13_Witness ==
    /\ ev = "render"
    /\ days = <<Day(1, 0, 0, 0)>>
    /\ total = Some(1)
    /\ \A k \in 1..3 : segs[1][k].frac = Frac(0, 1)

\* A snapshot with all three counts positive has been rendered.
C13_WitnessPositive ==
    /\ ev = "render"
    /\ days = <<Day(1, 2, 1, 1)>>
    /\ total = Some(4)
    /\ NumSum(segs[1]) = 4

\* C14, as stated: a start made when not playing resets the index to zero,
\* and each deferred step then advances the index by exactly one until the
\* index reaches the length of the snapshot array, at which point playback
\* stops.
C14_IndexReachesLength ==
    [][/\ (ev' = "start" /\ ~playing) => (i' = 0 /\ playing')
       /\ (ev' = "tick")
            => /\ i' = i + 1
               /\ playing' <=> i' < Len(days)]_vars

\* C14, amended: a start made when not playing resets the index to zero;
\* each deferred step that fires with the index below the last snapshot
\* advances the index by exactly one and playback goes on; the deferred
\* step that fires with the index at the last snapshot (its step counter
\* reaches the length of the array) leaves the index there and stops
\* playback.
C14_IndexStopsAtLast ==
    [][/\ (ev' = "start" /\ ~playing) => (i' = 0 /\ playing')
       /\ (ev' = "tick" /\ i < Len(days) - 1) => (i' = i + 1 /\ playing')
       /\ (ev' = "tick" /\ i >= Len(days) - 1)
            => (i = Len(days) - 1 /\ i' = i /\ ~playing')]_vars

\* A second playback over several days has stepped from the first snapshot
\* to the second.
C14_Witness ==
    /\ ev = "tick"
    /\ Len(days) >= 3
    /\ nextTimer > Len(days) + 1
    /\ i = 1
    /\ playing

\* The order of the places of a run: forward sweep, GET (fetch, then the
\* body read unless fetch rejected), pause, backward sweep, end.
RunOrder ==
    {<<"forward", "fetch">>, <<"fetch", "text">>, <<"fetch", "delay">>,
     <<"text", "delay">>, <<"delay", "backward">>, <<"backward", "done">>}

C16_RunsOverlap ==
    [][/\ Len(runs') > Len(runs)
            => /\ Len(runs') = Len(runs) + 1
               /\ \A n \in 1..Len(runs) : runs'[n] = runs[n]
               /\ runs'[Len(runs')].pc = "forward"
               /\ packet'.display
       /\ \A n \in 1..Len(runs) : Finishes(n) => ~packet'.display]_vars

\* The earlier run has just hidden the marker while the later run, clicked
\* during the earlier run's request, is in its forward sweep.
C16_Witness ==
    /\ Len(runs) = 2
    /\ runs[1].pc = "done"
    /\ runs[2].pc = "forward"
    /\ ~packet.display
    /\ ~paused
    /\ packet.t = 0

\* The runs whose GET has settled: those past the body read.
SettledRuns == {n \in 1..Len(runs) : runs[n].pc \in {"delay", "backward", "done"}}

\* C17: every run whose GET settles appends exactly one call result to
\* history in the step in which it settles, whether the GET was answered
\* 2xx, answered non-2xx or threw, and no other step appends; in every state
\* the history is as long as the number of runs whose GET has settled.
C17_OneEntryPerSettledGet ==
    /\ [](Len(history) = Cardinality(SettledRuns))
    /\ [][/\ \A n \in 1..Len(runs) :
                Settles(n) => /\ Len(history') = Len(history) + 1
                              /\ history'[Len(history')].url = <<root, runs[n].path>>
          /\ Len(history') # Len(history) => \E n \in 1..Len(runs) : Settles(n)]_vars

\* Two runs have ended, the first answered with 500 and the second thrown,
\* and each has its entry.
C17_Witness ==
    /\ Len(runs) = 2
    /\ runs[1].pc = "done" /\ runs[2].pc = "done"
    /\ Len(history) = 2
    /\ history[1].status = 500 /\ ~history[1].ok
    /\ history[2].status = 0 /\ ~history[2].ok

\* The transcript s with each message reduced to role and content.
Reduced(s) == [n \in 1..Len(s) |-> [role |-> s[n].role, content |-> s[n].content]]

\* C18: an accepted submit issues exactly one POST, whose message list is
\* the transcript as it stands right after the new user message is
\* appended: all prior messages in their order, each reduced to role and
\* content, followed by the new user message; no other step issues a POST
\* or changes the body of one.
C18_BodyIsTranscript ==
    [][/\ (ev' = "send" /\ trim(input) # <<>> /\ ~busy)
            => /\ Len(inflight') = Len(inflight) + 1
               /\ SubSeq(inflight', 1, Len(inflight)) = inflight
               /\ inflight'[Len(inflight')].pc = "fetch"
               /\ inflight'[Len(inflight')].body = Reduced(messages')
               /\ inflight'[Len(inflight')].body
                    = Reduced(messages) \o <<[role |-> "user", content |-> trim(input)]>>
       /\ ~(ev' = "send" /\ trim(input) # <<>> /\ ~busy)
            => /\ Len(inflight') <= Len(inflight)
               /\ \A k \in 1..Len(inflight') :
                    \E j \in 1..Len(inflight) : inflight'[k].body = inflight[j].body]_vars

\* The second accepted submit has sent the whole first exchange (user,
\* assistant, system status) and the new user line.
C18_Witness ==
    /\ ev = "send"
    /\ Len(inflight) = 1
    /\ inflight[1].pc = "fetch"
    /\ Len(inflight[1].body) = 4
    /\ [n \in 1..4 |-> inflight[1].body[n].role] = <<"user", "assistant", "system", "user">>
    /\ inflight[1].body = Reduced(messages)

\* C19: in every reachable state at most one deferred step timer is
\* pending; a step that schedules the next timer has committed its own
\* index update in the same callback, before the scheduling (the timer it
\* leaves pending is a new one, and it carries the index just set), and the
\* final step, which stops playback, schedules none.
C19_OneTimerPending ==
    /\ [](Cardinality(timers) <= 1)
    /\ [][ev' = "tick"
            => /\ timers' # {}
                    => /\ i' = i + 1
                       /\ playing'
                       /\ timers' \cap timers = {}
                       /\ \A t \in timers' : t.step = i' /\ tRef' = Some(t.id)
               /\ ~playing' => (timers' = {} /\ tRef' = Null)]_vars

\* A step in the middle of a playback has set the index and left the one
\* timer of the next step pending.
C19_Witness ==
    /\ ev = "tick"
    /\ playing
    /\ i = 2
    /\ Cardinality(timers) = 1
    /\ \A t \in timers : t.step = 2 /\ tRef = Some(t.id)

\* The GET of run n rejects in this step.
Rejects(n) == Settles(n) /\ runs'[n].settled = "rejected"

\* C20: a network failure of a run never puts the error boundary into its
\* error state, it only gives a history entry with ok = false; only a
\* rendering exception puts it there, and once the boundary has caught one
\* it shows the static fallback in every later state.
C20_BoundaryCatchesRenderFaults ==
    /\ [][/\ \A n \in 1..Len(runs) :
                Rejects(n) => /\ boundaryErr' = boundaryErr
                              /\ ~history'[Len(history')].ok
          /\ boundaryErr' # boundaryErr => ev' = "renderThrows"
          /\ ShowsFallback => ShowsFallback']_vars
    /\ [](boundaryErr # Null => ShowsFallback)

\* The part of C20 that holds whatever is thrown: network failures and runs
\* leave the boundary alone, and a caught exception whose message is not
\* empty shows the fallback from then on.
C20_CaughtWithMessage ==
    /\ [][/\ \A n \in 1..Len(runs) :
                Rejects(n) => /\ boundaryErr' = boundaryErr
                              /\ ~history'[Len(history')].ok
          /\ boundaryErr' # boundaryErr => ev' = "renderThrows"
          /\ ShowsFallback => ShowsFallback']_vars
    /\ [](boundaryErr # Null /\ boundaryErr # Some("") => ShowsFallback)

\* The boundary has caught an Error with an empty message after a run whose
\* GET threw: its state holds the empty string and the fallback is not
\* shown.
C20_Witness ==
    /\ ev = "renderThrows"
    /\ boundaryErr = Some("")
    /\ ~ShowsFallback
    /\ Len(history) = 1
    /\ ~history[1].ok

NoContent == <<"(no content)">>

\* C21: every assistant message of the transcript has non-empty content;
\* the content appended for a response is its resolved reply text, and the
\* placeholder when that text is empty (an empty body, an empty reply
\* member).
C21_AssistantContentNonEmpty ==
    /\ [](\A n \in 1..Len(messages) :
            messages[n].role = "assistant" => messages[n].content # <<>>)
    /\ [][ev' = "textResolve"
            => \E text \in ChatBodies :
                 messages'[Len(messages) + 1].content =
                    IF ResolveReply(text) = <<>> THEN NoContent
                    ELSE ResolveReply(text)]_vars

\* A response whose resolved reply text is empty has been answered with the
\* placeholder.
C21_Witness ==
    /\ ev = "textResolve"
    /\ Len(messages) = 3
    /\ messages[2] = Msg("assistant", NoContent)

\* C23: in every reachable state, before, during and after playback, after
\* any number of start presses and after teardown, the day index is a valid
\* read index of the snapshot array: 0 <= i <= length - 1.
C23_IndexInRange ==
    /\ Len(days) >= 1
    /\ i \in 0..(Len(days) - 1)

\* A second playback is under way after the first one ended at the last
\* snapshot, the index back in the middle of the array.
C23_Witness ==
    /\ ev = "tick"
    /\ playing
    /\ Len(days) = 4
    /\ nextTimer >= 7
    /\ i = 2

\* Line k of the cascade is revealed completely.
Complete(k) == outs[k] = lines[k]

\* C22: in every reachable state each revealed text is a prefix of its
\* line, and line k+1 has no revealed character unless line k is revealed
\* completely; a line begins (the line index moves on) only after the
\* previous line has completed and its pause has elapsed, that is, in the
\* callback of a linePause timeout and with the line it leaves complete.
C22_CascadeInOrder ==
    /\ [](\A k \in 1..Len(lines) : IsPrefix(outs[k], lines[k]))
    /\ [](\A k \in 1..(Len(lines) - 1) : outs[k + 1] # <<>> => Complete(k))
    /\ [][li' # li
            => /\ li' = li + 1
               /\ pauses # <<>> /\ pauses' = Tail(pauses)
               /\ Complete(li + 1)]_vars

\* The part of C22 that holds: each revealed text is a prefix of its line,
\* the line index moves on by one line at a time and only in the callback
\* of a linePause timeout, and a line has no revealed character before the
\* line index has reached it.
C22_PrefixesAndIndex ==
    /\ [](\A k \in 1..Len(lines) : IsPrefix(outs[k], lines[k]))
    /\ [](\A k \in 1..Len(lines) : outs[k] # <<>> => li >= k - 1)
    /\ [][li' # li
            => /\ li' = li + 1
               /\ pauses # <<>> /\ pauses' = Tail(pauses)]_vars

\* The second line is left with its first character alone while the third
\* line is being revealed.
C22_Witness ==
    /\ li = 2
    /\ outs[1] = lines[1]
    /\ outs[2] # lines[2]
    /\ outs[2] # <<>>
    /\ outs[3] # <<>>

=============================================================================
